---- MODULE Spec2Model ----
(***************************************************************************)
(* The Bitmovin encoding orchestration scripts of this repository:         *)
(*   src/index.js          CENC DRM, one video rendition, status polling   *)
(*   src/unnamed/part_000  FairPlay, keys fetched from the key-delivery    *)
(*                         service at module load                          *)
(*   src/unnamed/part_001  CENC + FairPlay, three video renditions         *)
(* One run of one script is one behaviour.  Each remote request is two     *)
(* steps (issue, response); `calls` is the log of the requests as the      *)
(* remote services see them.                                               *)
(***************************************************************************)
EXTENDS Integers, Sequences, FiniteSets, TLC

VARIABLES
    variant,      \* which script runs
    pc,           \* position of the script
    ip,           \* index of the next statement of main
    locals,       \* main's constants: name -> id of the created resource (0: not yet assigned)
    calls,        \* log of remote requests, in issue order
    nextId,       \* the encoding service's next resource id
    failure,      \* the error the run ended with ("none": no error)
    task,         \* executeEncoding's `task` (last status response)
    console,      \* lines written with console.log by the run
    xmlData,      \* part_000: body of the first key-delivery response
    fairPlayData, \* part_000: parser.parse(xmlData).FairPlay
    fairPlayKey,  \* part_000: module constants taken from fairPlayData
    fairPlayIv,
    fairPlayUri,
    cpixParsed,   \* part_000: parsed body of the second key-delivery response
    listening,    \* the HTTP server: "no", "starting" (app.listen called), "yes"
    sent          \* the bodies the HTTP server has answered with, in order

vars == <<variant, pc, ip, locals, calls, nextId, failure, task, console,
          xmlData, fairPlayData, fairPlayKey, fairPlayIv, fairPlayUri, cpixParsed,
          listening, sent>>

keyVars == <<xmlData, fairPlayData, fairPlayKey, fairPlayIv, fairPlayUri, cpixParsed>>

runVars == <<ip, locals, nextId, task, console>>

httpVars == <<listening, sent>>

----------------------------------------------------------------------------
(* Bounds of the model *)

\* longest hex blob the key-delivery service answers with
MaxBlobLen == 49
\* largest id the encoding service may hand out first
MaxFirstId == 2
\* most status queries of one run
MaxPolls == 3
\* most HTTP requests the server gets during one run
MaxRequests == 2

(* Program constants *)

\* KeyHEX.slice(0, 32) / KeyHEX.slice(32)
KeyChars == 32
\* Fmp4Muxing segmentLength
SegmentLength == 4

Variants == {"index", "part_000", "part_001"}

\* JavaScript's undefined, for values that are strings otherwise
Undefined == "undefined"

Min(a, b) == IF a < b THEN a ELSE b
Max(a, b) == IF a > b THEN a ELSE b

----------------------------------------------------------------------------
(* String.prototype.slice(start, end) on a string held as a sequence of    *)
(* characters: negative indexes count from the end, both are clamped.      *)
Slice(s, start, end) ==
    LET len  == Len(s)
        from == IF start < 0 THEN Max(len + start, 0) ELSE Min(start, len)
        to   == IF end < 0 THEN Max(len + end, 0) ELSE Min(end, len)
    IN  IF from < to THEN SubSeq(s, from + 1, to) ELSE <<>>

\* slice(start) with the end left out
SliceFrom(s, start) == Slice(s, start, Len(s))

\* Mutation: the IV starts one character late.
fairPlaySplitLate(keyHex) ==
    [key |-> Slice(keyHex, 0, KeyChars), iv |-> SliceFrom(keyHex, KeyChars + 1)]

\* part_000 lines 48-49: fairPlayKey and fairPlayIv from KeyHEX
fairPlaySplit(keyHex) ==
    [key |-> Slice(keyHex, 0, KeyChars), iv |-> SliceFrom(keyHex, KeyChars)]

----------------------------------------------------------------------------
(* The environment is taken as configured: process.env names stand for     *)
(* their values.                                                           *)

exampleName(v) == IF v = "part_000" THEN "FairPlaySolo" ELSE "CencDrmContentProtection"

\* the names the `Status` identifier could be bound under: the import list
\* of index.js names no Status, and no other declaration of it exists
StatusImported == FALSE

\* property read obj.f: undefined when the object has no such property
Get(obj, f) == IF f \in DOMAIN obj THEN obj[f] ELSE Undefined

\* a constant of main holding a created resource
Obj(name) == [id |-> locals[name]]

\* path.join: empty and "/" parts add no segment; a trailing "/" is kept
join(parts) ==
    [segments |-> SelectSeq(parts, LAMBDA p : p # "/" /\ p # ""),
     dir      |-> Len(parts) > 0 /\ parts[Len(parts)] = "/"]

buildAbsolutePath(v, relativePath) ==
    join(<<"S3_OUTPUT_PATH", exampleName(v), relativePath>>)

buildEncodingOutput(v, output, outputPath) ==
    [outputPath |-> buildAbsolutePath(v, outputPath),
     outputId   |-> output.id,
     acl        |-> <<"PUBLIC_READ">>]

createEncoding(name, description) ==
    [kind |-> "encoding", name |-> name, description |-> description]

createS3Input(v) ==
    [kind |-> "input", name |-> "S3_INPUT_NAME",
     bucketName |-> IF v = "part_000" THEN "S3_INPUT_BUCKET_NAME" ELSE "S3_BUCKET_NAME"]

createS3Output(v, name) ==
    [kind |-> "output", name |-> name,
     bucketName |-> IF v = "part_000" THEN "S3_OUTPUT_BUCKET_NAME" ELSE "S3_BUCKET_NAME"]

createH264VideoConfig(name, bitrate, width) ==
    [kind |-> "config", codec |-> "h264", name |-> name, bitrate |-> bitrate,
     width |-> width, presetConfiguration |-> "VOD_STANDARD"]

createAacAudioConfig(name, bitrate) ==
    [kind |-> "config", codec |-> "aac", name |-> name, bitrate |-> bitrate]

\* Mutation: the stream input is bound to the encoding's id.
createStreamWrongInput(encoding, input, inputPath, codecConfiguration) ==
    [kind |-> "stream", encodingId |-> encoding.id,
     inputStreams |-> << [inputId |-> encoding.id, inputPath |-> inputPath,
                          selectionMode |-> "AUTO"] >>,
     codecConfigId |-> codecConfiguration.id]

createStream(encoding, input, inputPath, codecConfiguration) ==
    [kind |-> "stream", encodingId |-> encoding.id,
     inputStreams |-> << [inputId |-> input.id, inputPath |-> inputPath,
                          selectionMode |-> "AUTO"] >>,
     codecConfigId |-> codecConfiguration.id]

createFmp4Muxing(encoding, stream) ==
    [kind |-> "muxing", encodingId |-> encoding.id,
     streams |-> << [streamId |-> stream.id] >>,
     segmentLength |-> SegmentLength]

\* Mutation: every attachment goes to the video muxing.
createDrmConfigCencSameMuxing(v, encoding, muxing, output, outputPath) ==
    [kind |-> "drm", encodingId |-> encoding.id, muxingId |-> Obj("videoMuxing").id,
     outputs |-> << buildEncodingOutput(v, output, outputPath) >>,
     key |-> "CENC_KEY", kid |-> "CENC_KID",
     widevine |-> [pssh |-> "CENC_WIDEVINE_PSSH"],
     playReady |-> [laUrl |-> "CENC_PLAYREADY_LA_URL"]]

\* index.js: Widevine + PlayReady, key material from the environment
createDrmConfigCenc(v, encoding, muxing, output, outputPath) ==
    [kind |-> "drm", encodingId |-> encoding.id, muxingId |-> muxing.id,
     outputs |-> << buildEncodingOutput(v, output, outputPath) >>,
     key |-> "CENC_KEY", kid |-> "CENC_KID",
     widevine |-> [pssh |-> "CENC_WIDEVINE_PSSH"],
     playReady |-> [laUrl |-> "CENC_PLAYREADY_LA_URL"]]

\* part_000: FairPlay, key material from the key-delivery response
createDrmConfigFairPlay(v, encoding, muxing, output, outputPath) ==
    [kind |-> "drm", encodingId |-> encoding.id, muxingId |-> muxing.id,
     outputs |-> << buildEncodingOutput(v, output, outputPath) >>,
     key |-> fairPlayKey, kid |-> Get(fairPlayData.fields, "KeyID"),
     fairPlay |-> [iv |-> fairPlayIv, uri |-> fairPlayUri],
     encryptionMode |-> "CBC"]

\* part_001: Widevine + PlayReady + FairPlay, key material from the environment
createDrmConfigCbc(v, encoding, muxing, output, outputPath) ==
    [kind |-> "drm", encodingId |-> encoding.id, muxingId |-> muxing.id,
     outputs |-> << buildEncodingOutput(v, output, outputPath) >>,
     key |-> "CENC_KEY", kid |-> "CENC_KID",
     widevine |-> [pssh |-> "CENC_WIDEVINE_PSSH"],
     playReady |-> [laUrl |-> "CENC_PLAYREADY_LA_URL"],
     fairPlay |-> [iv |-> "FAIRPLAY_IV", uri |-> "FAIRPLAY_KEYURI"],
     encryptionMode |-> "CBC"]

createDefaultDashManifest(v, encoding, output, outputPath, manifestName) ==
    [kind |-> "dash", encodingId |-> encoding.id, manifestName |-> manifestName,
     version |-> "V1",
     outputs |-> << buildEncodingOutput(v, output, outputPath) >>]

createDefaultHlsDashManifest(v, encoding, output, outputPath, manifestName) ==
    [kind |-> "hls", encodingId |-> encoding.id,
     outputs |-> << buildEncodingOutput(v, output, outputPath) >>,
     name |-> manifestName, manifestName |-> manifestName, version |-> "V1"]

buildManifestResource(manifest) == [manifestId |-> manifest.id]

\* new StartEncodingRequest(...) handed to encodings.start(encoding.id, ...)
StartEncodingRequest(encoding, dashManifest, hlsManifest) ==
    [kind |-> "start", encodingId |-> encoding.id,
     manifestGenerator |-> "V2",
     vodDashManifests |-> << buildManifestResource(dashManifest) >>,
     vodHlsManifests  |-> << buildManifestResource(hlsManifest) >>]

\* encodings.status(encoding.id)
StatusRequest(encoding) == [kind |-> "status", encodingId |-> encoding.id]

----------------------------------------------------------------------------
(* main, statement by statement: the i-th awaited creation call and the    *)
(* constant its result is bound to ("-": the result is dropped).  The      *)
(* statement after the last one is executeEncoding.                        *)

LocalNames ==
    {"encoding", "input", "output",
     "videoCodecConfiguration1", "videoCodecConfiguration2",
     "videoCodecConfiguration3", "audioCodecConfiguration",
     "videoStream", "videoStream1", "videoStream2", "videoStream3", "audioStream",
     "videoMuxing", "videoMuxing1", "videoMuxing2", "videoMuxing3", "audioMuxing",
     "dashManifest", "hlsManifest"}

inputFilePath == "S3_INPUT_PATH"

Stmt(dst, req) == [dst |-> dst, req |-> req]

\* src/index.js main
MainIndex(i) ==
    LET v == "index" encoding == Obj("encoding") input == Obj("input")
        output == Obj("output")
    IN CASE i = 1 -> Stmt("encoding",
                 createEncoding(exampleName(v), "Example with CENC DRM protection"))
       [] i = 2 -> Stmt("input", createS3Input(v))
       [] i = 3 -> Stmt("output", createS3Output(v, "Fragmented Output"))
       [] i = 4 -> Stmt("videoCodecConfiguration1",
                 createH264VideoConfig("Starting H264 config 1", 1500000, 1024))
       [] i = 5 -> Stmt("audioCodecConfiguration",
                 createAacAudioConfig("Starting audio codec config", 128000))
       [] i = 6 -> Stmt("videoStream",
                 createStream(encoding, input, inputFilePath, Obj("videoCodecConfiguration1")))
       [] i = 7 -> Stmt("audioStream",
                 createStream(encoding, input, inputFilePath, Obj("audioCodecConfiguration")))
       [] i = 8 -> Stmt("videoMuxing", createFmp4Muxing(encoding, Obj("videoStream")))
       [] i = 9 -> Stmt("audioMuxing", createFmp4Muxing(encoding, Obj("audioStream")))
       [] i = 10 -> Stmt("-",
                 createDrmConfigCenc(v, encoding, Obj("videoMuxing"), output, "video"))
       [] i = 11 -> Stmt("-",
                 createDrmConfigCenc(v, encoding, Obj("audioMuxing"), output, "audio"))
       [] i = 12 -> Stmt("dashManifest",
                 createDefaultDashManifest(v, encoding, output, "/", "stream.mpd"))
       [] i = 13 -> Stmt("hlsManifest",
                 createDefaultHlsDashManifest(v, encoding, output, "/", "stream.m3u8"))

MainIndexLen == 13

\* src/unnamed/part_000 main
MainPart000(i) ==
    LET v == "part_000" encoding == Obj("encoding") input == Obj("input")
        output == Obj("output")
    IN CASE i = 1 -> Stmt("encoding", createEncoding(exampleName(v), "FairPlay with CBC"))
       [] i = 2 -> Stmt("input", createS3Input(v))
       [] i = 3 -> Stmt("output", createS3Output(v, "Fairplay Output"))
       [] i = 4 -> Stmt("videoCodecConfiguration1",
                 createH264VideoConfig("Starting H264 config 1", 1500000, 1024))
       [] i = 5 -> Stmt("audioCodecConfiguration",
                 createAacAudioConfig("Starting audio codec config", 128000))
       [] i = 6 -> Stmt("videoStream1",
                 createStream(encoding, input, inputFilePath, Obj("videoCodecConfiguration1")))
       [] i = 7 -> Stmt("audioStream",
                 createStream(encoding, input, inputFilePath, Obj("audioCodecConfiguration")))
       [] i = 8 -> Stmt("videoMuxing1", createFmp4Muxing(encoding, Obj("videoStream1")))
       [] i = 9 -> Stmt("audioMuxing", createFmp4Muxing(encoding, Obj("audioStream")))
       [] i = 10 -> Stmt("-",
                 createDrmConfigFairPlay(v, encoding, Obj("videoMuxing1"), output, "video"))
       [] i = 11 -> Stmt("-",
                 createDrmConfigFairPlay(v, encoding, Obj("audioMuxing"), output, "audio"))
       [] i = 12 -> Stmt("dashManifest",
                 createDefaultDashManifest(v, encoding, output, "/", "stream.mpd"))
       [] i = 13 -> Stmt("hlsManifest",
                 createDefaultHlsDashManifest(v, encoding, output, "/", "stream.m3u8"))

MainPart000Len == 13

\* src/unnamed/part_001 main
MainPart001(i) ==
    LET v == "part_001" encoding == Obj("encoding") input == Obj("input")
        output == Obj("output")
    IN CASE i = 1 -> Stmt("encoding",
                 createEncoding(exampleName(v), "3 Video Configs with CENC DRM protection"))
       [] i = 2 -> Stmt("input", createS3Input(v))
       [] i = 3 -> Stmt("output", createS3Output(v, "Fragmented Output"))
       [] i = 4 -> Stmt("videoCodecConfiguration1",
                 createH264VideoConfig("Starting H264 config 1", 1500000, 1024))
       [] i = 5 -> Stmt("videoCodecConfiguration2",
                 createH264VideoConfig("Starting H264 config 2", 1000000, 768))
       [] i = 6 -> Stmt("videoCodecConfiguration3",
                 createH264VideoConfig("Starting H264 config 3", 750000, 640))
       [] i = 7 -> Stmt("audioCodecConfiguration",
                 createAacAudioConfig("Starting audio codec config", 128000))
       [] i = 8 -> Stmt("videoStream1",
                 createStream(encoding, input, inputFilePath, Obj("videoCodecConfiguration1")))
       [] i = 9 -> Stmt("videoStream2",
                 createStream(encoding, input, inputFilePath, Obj("videoCodecConfiguration2")))
       [] i = 10 -> Stmt("videoStream3",
                 createStream(encoding, input, inputFilePath, Obj("videoCodecConfiguration3")))
       [] i = 11 -> Stmt("audioStream",
                 createStream(encoding, input, inputFilePath, Obj("audioCodecConfiguration")))
       [] i = 12 -> Stmt("videoMuxing1", createFmp4Muxing(encoding, Obj("videoStream1")))
       [] i = 13 -> Stmt("videoMuxing2", createFmp4Muxing(encoding, Obj("videoStream2")))
       [] i = 14 -> Stmt("videoMuxing3", createFmp4Muxing(encoding, Obj("videoStream3")))
       [] i = 15 -> Stmt("audioMuxing", createFmp4Muxing(encoding, Obj("audioStream")))
       [] i = 16 -> Stmt("-",
                 createDrmConfigCbc(v, encoding, Obj("videoMuxing1"), output, "video"))
       [] i = 17 -> Stmt("-",
                 createDrmConfigCbc(v, encoding, Obj("videoMuxing2"), output, "video"))
       [] i = 18 -> Stmt("-",
                 createDrmConfigCbc(v, encoding, Obj("videoMuxing3"), output, "video"))
       [] i = 19 -> Stmt("-",
                 createDrmConfigCbc(v, encoding, Obj("audioMuxing"), output, "audio"))
       [] i = 20 -> Stmt("dashManifest",
                 createDefaultDashManifest(v, encoding, output, "/", "stream.mpd"))
       [] i = 21 -> Stmt("hlsManifest",
                 createDefaultHlsDashManifest(v, encoding, output, "/", "stream.m3u8"))

MainPart001Len == 21

MainLen(v) ==
    CASE v = "index" -> MainIndexLen
      [] v = "part_000" -> MainPart000Len
      [] v = "part_001" -> MainPart001Len

\* Mutation: in each script the first stream is created one statement early,
\* before the last codec configuration.
mainStreamEarly(v, i) ==
    LET last == IF v = "part_001" THEN 7 ELSE 5
        j    == IF i = last THEN last + 1 ELSE IF i = last + 1 THEN last ELSE i
    IN CASE v = "index" -> MainIndex(j)
         [] v = "part_000" -> MainPart000(j)
         [] v = "part_001" -> MainPart001(j)

\* the i-th statement of the running script's main
main(v, i) ==
    CASE v = "index" -> MainIndex(i)
      [] v = "part_000" -> MainPart000(i)
      [] v = "part_001" -> MainPart001(i)

----------------------------------------------------------------------------
(* The key-delivery service (part_000).  An XML document is its root tag   *)
(* and the values of the child elements it holds; a hex blob is a sequence *)
(* of hex digits 0..15.                                                    *)

Blob(len, pat) == [i \in 1..len |-> (i * pat) % 16]

BlobLens ==
    {0, KeyChars \div 2, KeyChars - 1, KeyChars, KeyChars + 1,
     KeyChars + KeyChars \div 2, MaxBlobLen}

Blobs == {Blob(n, p) : n \in BlobLens, p \in {1, 3}}

Tags == {"KeyHEX", "KeyUri", "KeyID", "AssetID"}

\* the children of a <FairPlay> element holding the tags of `present`
Children(present, blob) ==
    [t \in present |->
        CASE t = "KeyHEX"  -> blob
          [] t = "KeyUri"  -> "skd://key"
          [] t = "KeyID"   -> "kid-1"
          [] t = "AssetID" -> "asset-1"]

XmlDoc(root, children) == [root |-> root, children |-> children]

NoDoc == XmlDoc("", Children({}, <<>>))

\* an error page: no FairPlay element
ErrorDoc == XmlDoc("Error", Children({}, <<>>))

FairPlayDocs ==
    {XmlDoc("FairPlay", Children(present, blob)) : present \in SUBSET Tags, blob \in Blobs}

\* what fetch resolves with: the HTTP status class and the body.  A
\* non-success answer carries an error page.
KeyResponses ==
    {[ok |-> TRUE, body |-> d] : d \in FairPlayDocs \cup {ErrorDoc}}
        \cup {[ok |-> FALSE, body |-> ErrorDoc]}

CpixDoc == XmlDoc("cpix:CPIX", Children({"KeyID"}, <<>>))

CpixResponses ==
    {[ok |-> TRUE, body |-> CpixDoc], [ok |-> FALSE, body |-> ErrorDoc]}

\* parser.parse(text).FairPlay: undefined unless the root element is FairPlay
parseFairPlay(doc) ==
    IF doc.root = "FairPlay"
    THEN [defined |-> TRUE, fields |-> doc.children]
    ELSE [defined |-> FALSE, fields |-> Children({}, <<>>)]

\* parser.parse(text): the object with the root element as its one property
parse(doc) == [root |-> doc.root, value |-> doc.children]

----------------------------------------------------------------------------
(* The log of remote requests *)

Call(svc, req) == [svc |-> svc, req |-> req, state |-> "outstanding", id |-> 0]

\* the response to the outstanding (last) request
Respond(state, id) ==
    [calls EXCEPT ![Len(calls)] = [@ EXCEPT !.state = state, !.id = id]]

StatusValues == {"QUEUED", "RUNNING", "FINISHED", "ERROR"}

NoTask == [status |-> Undefined, messages |-> FALSE]

Polls == Cardinality({i \in 1..Len(calls) : calls[i].req.kind = "status"})

Init ==
    /\ variant \in Variants
    /\ pc = IF variant = "part_000" THEN "fetchKeys" ELSE "main"
    /\ ip = 1
    /\ locals = [n \in LocalNames |-> 0]
    /\ calls = <<>>
    /\ nextId \in 1..MaxFirstId
    /\ failure = "none"
    /\ task = NoTask
    /\ console = <<>>
    /\ xmlData = NoDoc
    /\ fairPlayData = parseFairPlay(NoDoc)
    /\ fairPlayKey = <<>>
    /\ fairPlayIv = <<>>
    /\ fairPlayUri = Undefined
    /\ cpixParsed = parse(NoDoc)
    /\ listening = "no"
    /\ sent = <<>>

----------------------------------------------------------------------------
(* part_000, module level: the two key-delivery requests *)

\* line 40: fetch(`http://fps.ezdrm.com/api/keys?...`, {method: 'POST'})
FetchKeys ==
    /\ pc = "fetchKeys"
    /\ calls' = Append(calls, Call("keys", [kind |-> "keys"]))
    /\ pc' = "awaitKeys"
    /\ UNCHANGED <<variant, httpVars, failure, runVars, keyVars>>

\* lines 40-45: the fetch resolves, whatever the HTTP status; res.text()
KeysResponse ==
    /\ pc = "awaitKeys"
    /\ \E r \in KeyResponses :
          /\ calls' = Respond(IF r.ok THEN "ok" ELSE "failed", 0)
          /\ xmlData' = r.body
    /\ pc' = "parseKeys"
    /\ UNCHANGED <<variant, httpVars, failure, runVars, fairPlayData, fairPlayKey,
                   fairPlayIv, fairPlayUri, cpixParsed>>

\* a fetch that rejects (no response at all) ends the module's evaluation
FetchRejected ==
    /\ pc \in {"awaitKeys", "awaitCpix"}
    /\ calls' = Respond("neterror", 0)
    /\ failure' = "TypeError: fetch failed"
    /\ pc' = "failed"
    /\ UNCHANGED <<variant, httpVars, runVars, keyVars>>

\* lines 47-50: fairPlayData, fairPlayKey, fairPlayIv, fairPlayUri
ParseKeys ==
    /\ pc = "parseKeys"
    /\ LET data == parseFairPlay(xmlData) IN
       /\ fairPlayData' = data
       /\ IF ~data.defined \/ "KeyHEX" \notin DOMAIN data.fields
          THEN \* reading KeyHEX of undefined, or slice of undefined
               /\ failure' = "TypeError"
               /\ pc' = "failed"
               /\ UNCHANGED <<fairPlayKey, fairPlayIv, fairPlayUri>>
          ELSE /\ fairPlayKey' = fairPlaySplit(data.fields["KeyHEX"]).key
               /\ fairPlayIv' = fairPlaySplit(data.fields["KeyHEX"]).iv
               /\ fairPlayUri' = Get(data.fields, "KeyUri")
               /\ pc' = "fetchCpix"
               /\ UNCHANGED failure
    /\ UNCHANGED <<variant, httpVars, calls, runVars, xmlData, cpixParsed>>

\* line 52: fetch(`https://cpix.ezdrm.com/...?k=${fairPlayData.AssetID}...`)
FetchCpix ==
    /\ pc = "fetchCpix"
    /\ calls' = Append(calls, Call("keys",
                    [kind |-> "cpix", k |-> Get(fairPlayData.fields, "AssetID")]))
    /\ pc' = "awaitCpix"
    /\ UNCHANGED <<variant, httpVars, failure, runVars, keyVars>>

\* lines 52-57: the fetch resolves; cpixParsed is read nowhere; line 304: main()
CpixResponse ==
    /\ pc = "awaitCpix"
    /\ \E r \in CpixResponses :
          /\ calls' = Respond(IF r.ok THEN "ok" ELSE "failed", 0)
          /\ cpixParsed' = parse(r.body)
    /\ pc' = "main"
    /\ UNCHANGED <<variant, httpVars, failure, runVars, xmlData, fairPlayData,
                   fairPlayKey, fairPlayIv, fairPlayUri>>

----------------------------------------------------------------------------
(* main: the awaited creation calls *)

\* main() returns to the module at its first await: the rest of the module
\* (app.get, app.listen) runs in the same turn
moduleTail(i, l) == IF i = 1 THEN "starting" ELSE l

\* Mutation: the following statement's call is issued while the previous
\* one is still awaited (a missing await).
callNextUnawaited ==
    /\ pc \in {"main", "await"}
    /\ LET i == IF pc = "await" THEN ip + 1 ELSE ip IN
         /\ i <= MainLen(variant)
         /\ calls' = Append(calls, Call("encoding", main(variant, i).req))
         /\ ip' = i
    /\ pc' = "await"
    /\ listening' = moduleTail(ip, listening)
    /\ UNCHANGED <<variant, sent, failure, locals, nextId, task, console, keyVars>>

\* the next statement of main issues its request
CallNext ==
    /\ pc = "main"
    /\ ip <= MainLen(variant)
    /\ calls' = Append(calls, Call("encoding", main(variant, ip).req))
    /\ pc' = "await"
    /\ listening' = moduleTail(ip, listening)
    /\ UNCHANGED <<variant, sent, failure, runVars, keyVars>>

\* the service answers with the created resource; the await resumes
Created ==
    /\ pc = "await"
    /\ calls' = Respond("ok", nextId)
    /\ nextId' = nextId + 1
    /\ LET dst == main(variant, ip).dst IN
         locals' = IF dst \in LocalNames THEN [locals EXCEPT ![dst] = nextId]
                   ELSE locals
    /\ ip' = ip + 1
    /\ pc' = "main"
    /\ UNCHANGED <<variant, httpVars, failure, task, console, keyVars>>

\* Mutation: the rejection is swallowed and main goes on with its next statement.
awaitRejectedSwallowed ==
    /\ calls' = Respond("failed", 0)
    /\ failure' = "none"
    /\ pc' = IF pc = "await" THEN "main" ELSE "done"
    /\ ip' = ip + 1
    /\ UNCHANGED <<variant, httpVars, locals, nextId, task, console, keyVars>>

\* Mutation: the rejected call is issued again.
awaitRejectedRetry ==
    /\ calls' = Respond("failed", 0)
    /\ pc' = IF pc = "awaitStatus" THEN "status" ELSE "main"
    /\ UNCHANGED <<variant, httpVars, failure, runVars, keyVars>>

\* an awaited SDK promise rejects: main has no try/catch, and main() at
\* module level has no catch handler, so the rejection ends the run
awaitRejected ==
    /\ calls' = Respond("failed", 0)
    /\ failure' = "rejected"
    /\ pc' = "failed"
    /\ UNCHANGED <<variant, httpVars, runVars, keyVars>>

\* the encoding service answers any request with a failure
Rejected ==
    /\ pc \in {"await", "awaitStart", "awaitStatus"}
    /\ awaitRejected

----------------------------------------------------------------------------
(* executeEncoding *)

\* encodings.start(encoding.id, startEncodingRequest)
Start ==
    /\ pc = "main"
    /\ ip = MainLen(variant) + 1
    /\ calls' = Append(calls, Call("encoding",
                    StartEncodingRequest(Obj("encoding"), Obj("dashManifest"),
                                         Obj("hlsManifest"))))
    /\ pc' = "awaitStart"
    /\ UNCHANGED <<variant, httpVars, failure, runVars, keyVars>>

\* what follows the awaited start: index.js polls, the other scripts return
executeEncodingAfterStart(v) == IF v = "index" THEN "timeout" ELSE "done"

Started ==
    /\ pc = "awaitStart"
    /\ calls' = Respond("ok", 0)
    /\ pc' = executeEncodingAfterStart(variant)
    /\ UNCHANGED <<variant, httpVars, failure, runVars, keyVars>>

\* index.js line 221: await timeout(5000)
Timeout ==
    /\ pc = "timeout"
    /\ pc' = "status"
    /\ UNCHANGED <<variant, httpVars, calls, failure, runVars, keyVars>>

\* index.js line 222: encodings.status(encoding.id)
StatusQuery ==
    /\ pc = "status"
    /\ Polls < MaxPolls
    /\ calls' = Append(calls, Call("encoding", StatusRequest(Obj("encoding"))))
    /\ pc' = "awaitStatus"
    /\ UNCHANGED <<variant, httpVars, failure, runVars, keyVars>>

StatusResponse ==
    /\ pc = "awaitStatus"
    /\ \E s \in StatusValues, m \in BOOLEAN :
          task' = [status |-> s, messages |-> m]
    /\ calls' = Respond("ok", 0)
    /\ pc' = "loopCond"
    /\ UNCHANGED <<variant, httpVars, failure, ip, locals, nextId, console, keyVars>>

\* index.js lines 212-214: returns early without messages, and does nothing with them
logTaskErrors(t, out) == IF ~t.messages THEN out ELSE out

\* index.js lines 223-230: the loop condition and what follows the loop.
\* Evaluating the condition reads the identifier Status.
LoopCond ==
    /\ pc = "loopCond"
    /\ IF ~StatusImported
       THEN /\ failure' = "ReferenceError: Status is not defined"
            /\ pc' = "failed"
            /\ UNCHANGED console
       ELSE IF task.status # "FINISHED" /\ task.status # "ERROR"
       THEN /\ pc' = "timeout"
            /\ UNCHANGED <<failure, console>>
       ELSE IF task.status = "ERROR"
       THEN /\ console' = logTaskErrors(task, console)
            /\ failure' = "Encoding failed"
            /\ pc' = "failed"
       ELSE /\ console' = Append(console, "Encoding finished successfully")
            /\ pc' = "done"
            /\ UNCHANGED failure
    /\ UNCHANGED <<variant, httpVars, calls, ip, locals, nextId, task, keyVars>>

----------------------------------------------------------------------------
(* The HTTP server.  An unhandled rejection ends the process, and the      *)
(* server with it.                                                         *)

Alive == failure = "none"

PortLine == "Running on port"

\* app.listen's callback: console.log(`Running on port ${port}`)
Listening ==
    /\ listening = "starting"
    /\ Alive
    /\ listening' = "yes"
    /\ console' = Append(console, PortLine)
    /\ UNCHANGED <<variant, pc, calls, failure, ip, locals, nextId, task, sent, keyVars>>

\* Mutation: the route answers with the last-known job status.
appGetLastKnown(v) == task.status

\* the body of the GET '/' route's answer: res.send('Working...') in
\* index.js and part_001, res.send(new CencDrm()) in part_000 (an object
\* with no property set, sent as JSON)
appGet(v) == IF v = "part_000" THEN "{}" ELSE "Working..."

\* app.get('/', ...): one request handled
HandleGet ==
    /\ listening = "yes"
    /\ Alive
    /\ Len(sent) < MaxRequests
    /\ sent' = Append(sent, appGet(variant))
    /\ UNCHANGED <<variant, pc, calls, failure, runVars, keyVars, listening>>

Next ==
    \/ FetchKeys
    \/ KeysResponse
    \/ FetchRejected
    \/ ParseKeys
    \/ FetchCpix
    \/ CpixResponse
    \/ CallNext
    \/ Created
    \/ Rejected
    \/ Start
    \/ Started
    \/ Timeout
    \/ StatusQuery
    \/ StatusResponse
    \/ LoopCond
    \/ Listening
    \/ HandleGet

Spec == Init /\ [][Next]_vars

----------------------------------------------------------------------------
(* Properties *)

CallIdx == 1..Len(calls)

Kind(j) == calls[j].req.kind

IsEncodingCall(j) == calls[j].svc = "encoding"

\* the dependency class of a request kind
CallClass(kind) ==
    CASE kind = "encoding" -> 1
      [] kind \in {"input", "output"} -> 2
      [] kind = "config" -> 3
      [] kind = "stream" -> 4
      [] kind = "muxing" -> 5
      [] kind = "drm" -> 6
      [] kind \in {"dash", "hls"} -> 7
      [] kind = "start" -> 8
      [] kind = "status" -> 9
      [] OTHER -> 0

\* the dependency classes of the creation calls the running script's
\* source holds, statement by statement
PlannedClasses ==
    LET stmt(i) == CASE variant = "index" -> MainIndex(i)
                     [] variant = "part_000" -> MainPart000(i)
                     [] variant = "part_001" -> MainPart001(i)
    IN [i \in 1..MainLen(variant) |-> CallClass(stmt(i).req.kind)]

\* C1: in every variant the encoding-service calls are issued in dependency
\* order (encoding, input/output, configurations, streams, muxings, DRM
\* attachments, manifests, start): when a call is issued, every call the
\* script makes of every earlier class has been issued and has returned,
\* and no call of a later class precedes it.
DependencyOrder ==
    LET planned == PlannedClasses
        plan == [c \in 1..7 |-> Cardinality({i \in DOMAIN planned : planned[i] = c})]
        \* the class of each encoding-service call of the log (0: another call)
        cls == [i \in CallIdx |-> IF IsEncodingCall(i) THEN CallClass(Kind(i)) ELSE 0]
        \* the calls of class c issued before call j that have returned a resource
        returnedBefore(j, c) ==
            Cardinality({i \in 1..(j - 1) : cls[i] = c /\ calls[i].state = "ok"})
    IN
    /\ \A i \in CallIdx : i < Len(calls) => calls[i].state # "outstanding"
    /\ \A j \in CallIdx :
          cls[j] >= 1 /\ cls[j] <= 8 =>
             /\ \A c \in 1..(cls[j] - 1) : returnedBefore(j, c) = plan[c]
             /\ \A i \in 1..(j - 1) : cls[i] <= cls[j]

\* a run of the three-rendition script has issued start and had it acknowledged
DependencyOrderWitness ==
    /\ variant = "part_001"
    /\ \E j \in CallIdx : Kind(j) = "start" /\ calls[j].state = "ok"

\* a remote call of the run has failed: an encoding-service call was
\* answered with a failure, or a fetch got no response
HasFailed ==
    \E i \in CallIdx :
        \/ IsEncodingCall(i) /\ calls[i].state = "failed"
        \/ calls[i].state = "neterror"

IdsBefore(j, kinds) ==
    {calls[i].id : i \in {k \in 1..(j - 1) :
        IsEncodingCall(k) /\ Kind(k) \in kinds /\ calls[k].state = "ok"}}

\* C5: every dependent call carries the ids returned by earlier calls of
\* the same run and no others: a stream the encoding, the input and one
\* configuration; a muxing the encoding and exactly one stream; a DRM
\* attachment the encoding, a muxing and the output; a manifest the
\* encoding and the output; start the encoding and exactly the DASH and
\* the HLS manifest.
IdsPropagate ==
    \A j \in CallIdx :
        LET r == calls[j].req
            enc == IdsBefore(j, {"encoding"})
            out == IdsBefore(j, {"output"})
        IN CASE r.kind = "stream" ->
                  /\ r.encodingId \in enc
                  /\ Len(r.inputStreams) = 1
                  /\ r.inputStreams[1].inputId \in IdsBefore(j, {"input"})
                  /\ r.codecConfigId \in IdsBefore(j, {"config"})
             [] r.kind = "muxing" ->
                  /\ r.encodingId \in enc
                  /\ Len(r.streams) = 1
                  /\ r.streams[1].streamId \in IdsBefore(j, {"stream"})
             [] r.kind = "drm" ->
                  /\ r.encodingId \in enc
                  /\ r.muxingId \in IdsBefore(j, {"muxing"})
                  /\ Len(r.outputs) = 1
                  /\ r.outputs[1].outputId \in out
             [] r.kind \in {"dash", "hls"} ->
                  /\ r.encodingId \in enc
                  /\ Len(r.outputs) = 1
                  /\ r.outputs[1].outputId \in out
             [] r.kind = "start" ->
                  /\ r.encodingId \in enc
                  /\ Len(r.vodDashManifests) = 1
                  /\ r.vodDashManifests[1].manifestId \in IdsBefore(j, {"dash"})
                  /\ Len(r.vodHlsManifests) = 1
                  /\ r.vodHlsManifests[1].manifestId \in IdsBefore(j, {"hls"})
             [] r.kind = "status" -> r.encodingId \in enc
             [] OTHER -> TRUE

\* the polling script has issued every dependent call, start included
IdsPropagateWitness ==
    /\ variant = "index"
    /\ \E j \in CallIdx : Kind(j) = "start" /\ calls[j].state = "ok"

\* the key response has been taken apart into key and IV
KeysSplit ==
    /\ variant = "part_000"
    /\ pc \notin {"fetchKeys", "awaitKeys", "parseKeys"}
    /\ fairPlayData.defined
    /\ "KeyHEX" \in DOMAIN fairPlayData.fields

\* C6: the content key is the first 32 characters of the KeyHEX blob and
\* the IV everything after them, so key followed by IV is the blob; a
\* 48-character blob gives a 32-character key and a 16-character IV.
KeyIvSplit ==
    KeysSplit =>
        LET blob == xmlData.children["KeyHEX"] IN
        /\ fairPlayKey = [i \in 1..(IF Len(blob) < 32 THEN Len(blob) ELSE 32) |-> blob[i]]
        /\ fairPlayKey \o fairPlayIv = blob
        /\ Len(blob) = 48 => Len(fairPlayKey) = 32 /\ Len(fairPlayIv) = 16

\* a 48-character blob has been split
KeyIvSplitWitness ==
    KeysSplit /\ Len(xmlData.children["KeyHEX"]) = 48

\* the status the loop last observed, once its condition has been evaluated
Observed(statuses) ==
    /\ variant = "index"
    /\ task.status \in statuses
    /\ pc # "loopCond"

SuccessLine == "Encoding finished successfully"

\* C3: once the polled status is the finished value, the loop ends there
\* with no further status query and no failure, and the run reports success.
FinishedReportsSuccess ==
    Observed({"FINISHED"}) =>
        /\ pc = "done"
        /\ failure = "none"
        /\ \E k \in 1..Len(console) : console[k] = SuccessLine
        /\ Kind(Len(calls)) = "status"

\* C4: once the polled status is the error value, the loop ends there and
\* the run ends with the failure 'Encoding failed', with no further status
\* query and no second start call.
ErrorRaisesEncodingFailed ==
    Observed({"ERROR"}) =>
        /\ pc = "failed"
        /\ failure = "Encoding failed"
        /\ Kind(Len(calls)) = "status"
        /\ Cardinality({j \in CallIdx : Kind(j) = "start"}) = 1

\* the first key-delivery response has arrived
KeysAnswered ==
    /\ variant = "part_000"
    /\ Len(calls) >= 1
    /\ calls[1].state \in {"ok", "failed"}

\* the key response holds a FairPlay element with all four fields
Complete(doc) == doc.root = "FairPlay" /\ Tags \subseteq DOMAIN doc.children

\* C7: a key-delivery response that is malformed or lacks the hex blob, the
\* key URI, the key ID or the asset identifier fails the run: no
\* encoding-service call is issued, and no DRM attachment carries a missing
\* or truncated key, IV, URI or key ID.
IncompleteKeysFailRun ==
    /\ KeysAnswered /\ ~Complete(xmlData) => \A j \in CallIdx : ~IsEncodingCall(j)
    /\ variant = "part_000" =>
          \A j \in CallIdx :
              Kind(j) = "drm" =>
                 /\ Len(calls[j].req.key) = 32
                 /\ Len(calls[j].req.fairPlay.iv) > 0
                 /\ calls[j].req.fairPlay.uri # Undefined
                 /\ calls[j].req.kid # Undefined

\* C8: a non-success response to either key-delivery request aborts the
\* run: no key material is taken from it, no second key-delivery request
\* follows a failed first one, and no encoding-service call is issued.
KeyServiceFailureAborts ==
    (variant = "part_000" /\ \E i \in CallIdx : calls[i].svc = "keys" /\ calls[i].state = "failed") =>
        /\ \A j \in CallIdx : ~IsEncodingCall(j)
        /\ calls[1].state = "failed" =>
              /\ Len(calls) = 1
              /\ ~fairPlayData.defined
              /\ fairPlayKey = <<>> /\ fairPlayIv = <<>> /\ fairPlayUri = Undefined

\* C9: when the polled status is the error value and the task carries
\* messages, they are on the console by the time the failure is raised.
ErrorMessagesLogged ==
    (variant = "index" /\ task.status = "ERROR" /\ task.messages /\ failure # "none") =>
        \E k \in 1..Len(console) : console[k] \notin {PortLine, SuccessLine}

\* C10: while the service answers with non-terminal status values and no
\* call fails, the loop goes on: the run neither succeeds nor fails, and
\* another wait and another status query follow.
NonTerminalKeepsPolling ==
    (Observed({"QUEUED", "RUNNING"}) /\ ~HasFailed) =>
        /\ failure = "none"
        /\ pc \in {"timeout", "status", "awaitStatus"}

\* C11: the remote calls of a run are strictly sequential: at most one
\* request (key-delivery, creation, start or status) is outstanding at any
\* moment, and a request is issued only once every earlier one has been
\* answered.
SequentialCalls ==
    /\ [](Cardinality({i \in CallIdx : calls[i].state = "outstanding"}) <= 1)
    /\ [][Len(calls') > Len(calls) =>
            \A i \in CallIdx : calls[i].state # "outstanding"]_vars

\* the key-fetching script waits for an encoding-service call, after both
\* key-delivery requests were answered
SequentialCallsWitness ==
    /\ variant = "part_000"
    /\ Len(calls) >= 4
    /\ calls[Len(calls)].state = "outstanding"
    /\ calls[2].svc = "keys" /\ calls[2].state = "ok"

CountOf(kind) == Cardinality({j \in CallIdx : Kind(j) = kind})

\* C12: the encoding, the input, the output, the DASH manifest, the HLS
\* manifest and start are each requested at most once in a run; every
\* stream references that one input, and every DRM attachment and both
\* manifests reference that one output.
OncePerRun ==
    /\ \A kind \in {"encoding", "input", "output", "dash", "hls", "start"} :
          CountOf(kind) <= 1
    /\ \A j \in CallIdx :
          /\ Kind(j) = "stream" =>
                /\ CountOf("input") = 1
                /\ \A i \in CallIdx : Kind(i) = "input" =>
                      calls[j].req.inputStreams[1].inputId = calls[i].id
          /\ Kind(j) \in {"drm", "dash", "hls"} =>
                /\ CountOf("output") = 1
                /\ \A i \in CallIdx : Kind(i) = "output" =>
                      calls[j].req.outputs[1].outputId = calls[i].id

\* a run of the key-fetching script has come to its end
OncePerRunWitness ==
    /\ variant = "part_000"
    /\ pc = "done"
    /\ CountOf("start") = 1 /\ CountOf("drm") = 2

\* C13: the GET '/' route answers with the same static body in every state
\* of the run, and handling a request changes nothing of the run: no remote
\* call, no progress, no resource id.
ServerStatic ==
    /\ [](\A k \in 1..Len(sent) :
            sent[k] = IF variant = "part_000" THEN "{}" ELSE "Working...")
    /\ [][sent' # sent =>
            UNCHANGED <<variant, pc, ip, locals, calls, nextId, failure, task,
                        console, keyVars>>]_vars

\* the polling script has answered a request and now waits for a status
ServerStaticWitness ==
    /\ variant = "index"
    /\ pc = "awaitStatus"
    /\ Len(sent) >= 1

\* C14: when start is issued, every muxing created in the run has exactly
\* one DRM attachment, created successfully before; no muxing ever gets
\* two attachments.
DrmPerMuxing ==
    \A i \in CallIdx :
        Kind(i) = "muxing" /\ calls[i].state = "ok" =>
            LET att(upto) == {k \in 1..upto : Kind(k) = "drm"
                                 /\ calls[k].req.muxingId = calls[i].id}
            IN /\ Cardinality(att(Len(calls))) <= 1
               /\ \A j \in CallIdx :
                     Kind(j) = "start" /\ i < j =>
                        /\ Cardinality(att(j - 1)) = 1
                        /\ \A k \in att(j - 1) : calls[k].state = "ok"

\* the three-rendition script has issued start with its four muxings
DrmPerMuxingWitness ==
    /\ variant = "part_001"
    /\ CountOf("muxing") = 4
    /\ Kind(Len(calls)) = "start"

\* C15: the DRM attachments of a run target pairwise distinct output paths.
DistinctDrmPaths ==
    \A j, k \in CallIdx :
        (Kind(j) = "drm" /\ Kind(k) = "drm" /\ j # k) =>
            calls[j].req.outputs[1].outputPath # calls[k].req.outputs[1].outputPath

====
